---------------------------- MODULE Spec2Model ----------------------------
(***************************************************************************)
(* Poker-AI-Bot, poker.py: the card containers (Card, Hand, HoleCards),    *)
(* the hand classifier hand_rank and the two outs estimators               *)
(* royal_probability and quads_prob.                                       *)
(*                                                                         *)
(* Python objects are modelled as a heap: `lists` holds the list objects   *)
(* callers pass to the constructors, and a Hand or HoleCards object keeps  *)
(* the identity of the list it was given (self.cards = cards stores the    *)
(* reference) next to its own freshly built ranks and suits lists.         *)
(*                                                                         *)
(* A probability is the pair (num, den) of the summed integer numerators   *)
(* and the common denominator of the terms the code adds; the rounding of  *)
(* the float division is not modelled.                                     *)
(***************************************************************************)
EXTENDS Integers, Sequences, FiniteSets, TLC

VARIABLES
    lists,   \* heap of Python list objects: list id -> sequence of cards
    hands,   \* the Hand objects built so far
    holes,   \* the HoleCards objects built so far
    ret,     \* the last operation: its name, the objects it was given, its result
    pool     \* the cards the caller deals from, in deck order

vars == <<lists, hands, holes, ret, pool>>

-----------------------------------------------------------------------------
(* Bounds of the model *)

\* Hand objects built in one behaviour of Spec
MaxHands == 1
\* longest list handed to a constructor in Spec
MaxInitLen == 6
\* lists stop growing at this length in Spec (add_card itself has no such cap)
MaxListLen == 7
\* cards of RankDeck / StraightDeck dealt from in SpecRank / SpecStraight
RankPoolSize == 10
\* cards of ProbDeck dealt from in SpecProb
ProbPoolSize == 10

-----------------------------------------------------------------------------
(* Cards *)

Suits == 1..4
Ranks == 1..13

Card(suit, rank) == [suit |-> suit, rank |-> rank]

Deck == {Card(s, r) : s \in Suits, r \in Ranks}

\* consts.royal_ranks: the ranks Ace, 10, Jack, Queen, King as a sorted list
royal_ranks == <<1, 10, 11, 12, 13>>

None == "None"
ValueError == "ValueError"
IndexError == "IndexError"
ZeroDivisionError == "ZeroDivisionError"

\* how a call ends: it returns a value, or it raises
Return(v) == [err |-> None, val |-> v]
Raise(e) == [err |-> e, val |-> None]

-----------------------------------------------------------------------------
(* Python built-ins used by the code *)

\* set(xs)
SetOf(xs) == {xs[i] : i \in DOMAIN xs}

\* x in xs
In(x, xs) == \E i \in DOMAIN xs : xs[i] = x

\* xs.count(x)
count(xs, x) == Cardinality({i \in DOMAIN xs : xs[i] = x})

\* sorted(xs): a new list, xs itself is left alone
sorted(xs) == SortSeq(xs, LAMBDA a, b : a < b)

\* min(xs), for a non-empty xs (min([]) raises ValueError)
min(xs) == CHOOSE m \in SetOf(xs) : \A x \in SetOf(xs) : m <= x

\* [f(x) for x in xs]
ranksOf(cards) == [i \in DOMAIN cards |-> cards[i].rank]
suitsOf(cards) == [i \in DOMAIN cards |-> cards[i].suit]

RECURSIVE comb(_, _)
\* math.comb(n, k) for n, k >= 0: 0 when k > n (negative arguments raise ValueError,
\* which the callers test before they use comb)
comb(n, k) ==
    IF k > n THEN 0
    ELSE IF k = 0 THEN 1
    ELSE (comb(n - 1, k - 1) * n) \div k

-----------------------------------------------------------------------------
(* Hand and HoleCards objects *)

\* the object's fields with its cards reference followed into the heap
View(obj) == [cards |-> lists[obj.cards], ranks |-> obj.ranks, suits |-> obj.suits]

\* len(hand): Hand.__len__
len(obj) == Len(lists[obj.cards])

\* Hand.__init__(cards), cards being list object l with the given content:
\* the reference is kept, ranks and suits are built anew
Hand__init__(l, content) ==
    [cards |-> l, ranks |-> ranksOf(content), suits |-> suitsOf(content)]

\* HoleCards.__init__ raises unless it is given exactly 2 cards
HoleCards__rejects(content) == Len(content) # 2

\* HoleCards.__init__(cards), past its length test
HoleCards__init__(l, content) ==
    [cards |-> l, ranks |-> ranksOf(content), suits |-> suitsOf(content)]

\* Hand.add_card raises when the hand's card list holds exactly 5 cards
add_card__rejects(cards) == Len(cards) = 5

-----------------------------------------------------------------------------
(* hand_rank *)

\* [rank - min_rank for rank in ranks] == [0,1,2,3,4], ranks sorted and non-empty
IsRun(ranks) ==
    /\ Len(ranks) = 5
    /\ \A i \in 1..5 : ranks[i] - min(ranks) = i - 1

\* mutant: the first rank is counted for 4 only, not for 1 or 4
IsQuadsOfTwoRanks_FourOnly(ranks) == count(ranks, ranks[1]) = 4

\* the test that tells four of a kind from a full house
IsQuadsOfTwoRanks(ranks) == count(ranks, ranks[1]) \in {1, 4}

\* the test that tells two pair from three of a kind
HasRankTwice(ranks) == \E i \in DOMAIN ranks : count(ranks, ranks[i]) = 2

\* mutant: the comparison with royal_ranks is left out
IsStraight_RunOnly(ranks) == IsRun(ranks)

\* the straight test of the last branch, on the sorted ranks
IsStraight(ranks) == IsRun(ranks) \/ ranks = royal_ranks

\* hand_rank(hand): the category code; min([]) raises ValueError
hand_rank(hand) ==
    IF Cardinality(SetOf(hand.suits)) = 1
    THEN LET ranks == sorted(hand.ranks)
         IN  IF ranks = <<1, 10, 11, 12, 13>> THEN Return(1)
             ELSE IF IsRun(ranks) THEN Return(2)
             ELSE Return(5)
    ELSE IF Cardinality(SetOf(hand.ranks)) = 2
    THEN IF IsQuadsOfTwoRanks(hand.ranks) THEN Return(3) ELSE Return(4)
    ELSE IF Cardinality(SetOf(hand.ranks)) = 3
    THEN IF HasRankTwice(hand.ranks) THEN Return(8) ELSE Return(7)
    ELSE IF Cardinality(SetOf(hand.ranks)) = 4
    THEN Return(9)
    ELSE IF hand.ranks = <<>> THEN Raise(ValueError)
    ELSE IF IsStraight(sorted(hand.ranks)) THEN Return(6)
    ELSE Return(10)

\* mutant: hand.ranks.sort() in place of sorted(hand.ranks)
hand_rank__effect_SortsInPlace(hand) == [hand EXCEPT !.ranks = sorted(@)]

\* what hand_rank leaves of the hand it was given: it assigns to no field and
\* sorts copies (sorted), so the object is as before
hand_rank__effect(hand) == hand

-----------------------------------------------------------------------------
(* royal_probability and quads_prob *)

RECURSIVE SumNumerators(_)
\* probability += comb(n, k) / denominator, over the terms in turn
SumNumerators(terms) ==
    IF terms = <<>> THEN 0
    ELSE comb(Head(terms).n, Head(terms).k) + SumNumerators(Tail(terms))

\* the terms whose guard holds, in the order of the dictionary's keys 1, 2, ...
Admitted(guard, term) ==
    LET F[i \in 0..Len(guard)] ==
            IF i = 0 THEN <<>>
            ELSE IF guard[i] THEN Append(F[i - 1], term[i])
            ELSE F[i - 1]
    IN  F[Len(guard)]

\* the loop that sums the terms: 0 when no guard holds; math.comb raises
\* ValueError on a negative argument and the division ZeroDivisionError
Probability(terms, den) ==
    IF terms = <<>> THEN Return([num |-> 0, den |-> 1])
    ELSE IF \E i \in DOMAIN terms : terms[i].n < 0 \/ terms[i].k < 0
    THEN Raise(ValueError)
    ELSE IF den.n < 0 \/ den.k < 0 THEN Raise(ValueError)
    ELSE IF comb(den.n, den.k) = 0 THEN Raise(ZeroDivisionError)
    ELSE Return([num |-> SumNumerators(terms), den |-> comb(den.n, den.k)])

\* comb(52 - (board_len+2), 5 - board_len): the ways to choose the rest of the board
Denominator(board_len) == [n |-> 52 - (board_len + 2), k |-> 5 - board_len]

\* royal_suits[suit] after the two counting loops
royal_suits(board, hole, suit) ==
    Cardinality({i \in 1..Len(board.cards) :
                    In(board.ranks[i], royal_ranks) /\ board.suits[i] = suit})
    + Cardinality({i \in 1..2 : In(hole.ranks[i], royal_ranks) /\ hole.suits[i] = suit})

\* mutant: > in place of >=
RoyalGuard_Strict(royals, board_len) == royals > board_len

\* if royals >= board_len
RoyalGuard(royals, board_len) == royals >= board_len

\* mutant: the missing royal cards are not taken out of the slots to fill
RoyalTerm_AllSlots(royals, board_len) ==
    [n |-> 52 - (board_len + 2 + 5 - royals), k |-> 5 - board_len]

\* comb(52 - (board_len+2 + 5-royals), 5 - board_len - (5 - royals))
RoyalTerm(royals, board_len) ==
    [n |-> 52 - (board_len + 2 + 5 - royals), k |-> 5 - board_len - (5 - royals)]

\* royal_probability(board, hole); board.ranks[i] for i in range(len(board))
\* raises IndexError when the card list is longer than the ranks list
royal_probability(board, hole) ==
    LET board_len == Len(board.cards)
    IN  IF board_len > Len(board.ranks) THEN Raise(IndexError)
        ELSE Probability(
                Admitted([s \in 1..4 |-> RoyalGuard(royal_suits(board, hole, s), board_len)],
                         [s \in 1..4 |-> RoyalTerm(royal_suits(board, hole, s), board_len)]),
                Denominator(board_len))

\* ranks[rank] after the two counting loops
rank_counts(board, hole, rank) ==
    Cardinality({i \in 1..Len(board.cards) : board.ranks[i] = rank})
    + Cardinality({i \in 1..2 : hole.ranks[i] = rank})

\* mutant: the cards already on the board are not taken off the 5 slots
QuadsGuard_NoBoardLen(cnt, board_len) == 4 - cnt <= 5

\* if 4-count <= 5-board_len
QuadsGuard(cnt, board_len) == 4 - cnt <= 5 - board_len

\* mutant: the missing cards of the rank are not taken out of the unseen cards
QuadsTerm_AllUnseen(cnt, board_len) ==
    [n |-> 52 - (board_len + 2), k |-> 5 - board_len - (4 - cnt)]

\* comb(52 - (board_len+2 + 4-count), 5 - board_len - (4-count))
QuadsTerm(cnt, board_len) ==
    [n |-> 52 - (board_len + 2 + 4 - cnt), k |-> 5 - board_len - (4 - cnt)]

\* quads_prob(board, hole)
quads_prob(board, hole) ==
    LET board_len == Len(board.cards)
    IN  IF board_len > Len(board.ranks) THEN Raise(IndexError)
        ELSE Probability(
                Admitted([r \in 1..13 |-> QuadsGuard(rank_counts(board, hole, r), board_len)],
                         [r \in 1..13 |-> QuadsTerm(rank_counts(board, hole, r), board_len)]),
                Denominator(board_len))

\* what the two estimators leave of the objects they were given: they only read
probability__effect(obj) == obj

-----------------------------------------------------------------------------
(* The decks the caller deals from *)

\* Spec: lists handed to the constructors are prefixes of this deck
StockDeck ==
    <<Card(1, 13), Card(2, 1), Card(1, 10), Card(3, 13), Card(1, 12),
      Card(1, 11), Card(4, 13), Card(2, 12)>>

\* SpecRank: a deck whose first ten cards hold a hand of each category
RankDeck ==
    <<Card(1, 1), Card(1, 10), Card(1, 11), Card(1, 12), Card(1, 13),
      Card(2, 13), Card(3, 13), Card(4, 13), Card(2, 12), Card(1, 9),
      Card(3, 12)>>

\* SpecStraight: nine ranks in two suits, then a second 5 and a 6
StraightDeck ==
    <<Card(1, 1), Card(2, 2), Card(1, 3), Card(2, 4), Card(1, 5),
      Card(2, 10), Card(1, 11), Card(2, 12), Card(1, 13), Card(3, 5),
      Card(2, 6)>>

\* SpecProb: the four Aces, the other royal Hearts, and cards of neither kind
ProbDeck ==
    <<Card(1, 1), Card(2, 1), Card(3, 1), Card(4, 1), Card(1, 10),
      Card(1, 11), Card(1, 12), Card(1, 13), Card(4, 2), Card(2, 10),
      Card(2, 13)>>

\* the place of a card in the pool (0 when it is not there)
IndexOf(card) ==
    IF In(card, pool) THEN CHOOSE i \in DOMAIN pool : pool[i] = card ELSE 0

-----------------------------------------------------------------------------
(* Operations *)

Called(op, hand, hole, result) ==
    [op |-> op, hand |-> hand, hole |-> hole, err |-> result.err, val |-> result.val]

\* hand = Hand(cards) on a new list holding the first n cards of the pool
NewHand(n) ==
    /\ Len(hands) < MaxHands
    /\ LET content == SubSeq(pool, 1, n)
           l == Len(lists) + 1
       IN  /\ lists' = Append(lists, content)
           /\ hands' = Append(hands, Hand__init__(l, content))
           /\ ret' = Called("Hand", Len(hands) + 1, 0, Return(None))
    /\ UNCHANGED <<holes, pool>>

\* hand = Hand(cards) on the list another object already holds
NewHandShared(l) ==
    /\ Len(hands) < MaxHands
    /\ hands' = Append(hands, Hand__init__(l, lists[l]))
    /\ ret' = Called("Hand", Len(hands) + 1, 0, Return(None))
    /\ UNCHANGED <<lists, holes, pool>>

\* hole = HoleCards(cards) on a new list holding the first n cards of the pool
NewHole(n) ==
    /\ holes = <<>>
    /\ LET content == SubSeq(pool, 1, n)
           l == Len(lists) + 1
       IN  IF HoleCards__rejects(content)
           THEN /\ ret' = Called("HoleCards", 0, 0, Raise(ValueError))
                /\ UNCHANGED <<lists, holes>>
           ELSE /\ lists' = Append(lists, content)
                /\ holes' = Append(holes, HoleCards__init__(l, content))
                /\ ret' = Called("HoleCards", 0, 1, Return(None))
    /\ UNCHANGED <<hands, pool>>

\* hole = HoleCards(cards) on the list another object already holds
NewHoleShared(l) ==
    /\ holes = <<>>
    /\ IF HoleCards__rejects(lists[l])
       THEN /\ ret' = Called("HoleCards", 0, 0, Raise(ValueError))
            /\ UNCHANGED holes
       ELSE /\ holes' = Append(holes, HoleCards__init__(l, lists[l]))
            /\ ret' = Called("HoleCards", 0, 1, Return(None))
    /\ UNCHANGED <<lists, hands, pool>>

\* hands[h].add_card(card)
AddCard(h, card) ==
    /\ IF add_card__rejects(lists[hands[h].cards])
       THEN /\ ret' = Called("add_card", h, 0, Raise(ValueError))
            /\ UNCHANGED <<lists, hands>>
       ELSE /\ lists' = [lists EXCEPT ![hands[h].cards] = Append(@, card)]
            /\ hands' = [hands EXCEPT ![h] = [@ EXCEPT !.ranks = Append(@, card.rank),
                                                       !.suits = Append(@, card.suit)]]
            /\ ret' = Called("add_card", h, 0, Return(None))
    /\ UNCHANGED <<holes, pool>>

\* hand_rank(hands[h])
CallHandRank(h) ==
    /\ ret' = Called("hand_rank", h, 0, hand_rank(hands[h]))
    /\ hands' = [hands EXCEPT ![h] = hand_rank__effect(@)]
    /\ UNCHANGED <<lists, holes, pool>>

\* royal_probability(hands[h], holes[o])
CallRoyalProbability(h, o) ==
    /\ ret' = Called("royal_probability", h, o,
                     royal_probability(View(hands[h]), View(holes[o])))
    /\ hands' = [hands EXCEPT ![h] = probability__effect(@)]
    /\ holes' = [holes EXCEPT ![o] = probability__effect(@)]
    /\ UNCHANGED <<lists, pool>>

\* quads_prob(hands[h], holes[o])
CallQuadsProb(h, o) ==
    /\ ret' = Called("quads_prob", h, o, quads_prob(View(hands[h]), View(holes[o])))
    /\ hands' = [hands EXCEPT ![h] = probability__effect(@)]
    /\ holes' = [holes EXCEPT ![o] = probability__effect(@)]
    /\ UNCHANGED <<lists, pool>>

-----------------------------------------------------------------------------
(* Spec: the life of the objects. Hands and hole cards are built from new   *)
(* lists or from lists other objects hold, hands are extended, and the      *)
(* three functions are called on whatever has been built.                   *)

Init ==
    /\ lists = <<>>
    /\ hands = <<>>
    /\ holes = <<>>
    /\ ret = Called("start", 0, 0, Return(None))
    /\ pool = StockDeck

Next ==
    \/ \E n \in 0..MaxInitLen : NewHand(n)
    \/ \E l \in DOMAIN lists : NewHandShared(l)
    \/ \E n \in 1..3 : NewHole(n)
    \/ \E l \in DOMAIN lists : NewHoleShared(l)
    \/ \E h \in DOMAIN hands :
          /\ len(hands[h]) < MaxListLen
          /\ AddCard(h, pool[Len(pool)])
    \/ \E h \in DOMAIN hands : CallHandRank(h)
    \/ \E h \in DOMAIN hands, o \in DOMAIN holes : CallRoyalProbability(h, o)
    \/ \E h \in DOMAIN hands, o \in DOMAIN holes : CallQuadsProb(h, o)

Spec == Init /\ [][Next]_vars

-----------------------------------------------------------------------------
(* SpecRank, SpecStraight: hand_rank on every 5-card hand dealt, in every  *)
(* order, from the first RankPoolSize cards of a deck.                     *)

\* the cards of the pool no object holds yet
Undealt == {c \in SetOf(pool) : \A l \in DOMAIN lists : ~In(c, lists[l])}

\* the dealer gives the hand one more card, up to five
Deal(card) ==
    /\ len(hands[1]) < 5
    /\ AddCard(1, card)

\* the classifier is called on complete hands
Classify ==
    /\ len(hands[1]) = 5
    /\ CallHandRank(1)

InitHand(deck) ==
    /\ lists = << <<>> >>
    /\ hands = <<Hand__init__(1, <<>>)>>
    /\ holes = <<>>
    /\ ret = Called("start", 0, 0, Return(None))
    /\ pool = SubSeq(deck, 1, RankPoolSize)

InitRank == InitHand(RankDeck)

InitStraight == InitHand(StraightDeck)

NextRank ==
    \/ \E c \in Undealt : Deal(c)
    \/ Classify

SpecRank == InitRank /\ [][NextRank]_vars

SpecStraight == InitStraight /\ [][NextRank]_vars

-----------------------------------------------------------------------------
(* SpecProb: the estimators on every board of 0 to 5 cards turned over in  *)
(* deck order and every pair of hole cards, from the first ProbPoolSize    *)
(* cards of ProbDeck.                                                      *)

\* the dealer turns over the next board card: one further down the deck
\* than the last one
Turn(card) ==
    /\ \A i \in DOMAIN lists[1] : IndexOf(lists[1][i]) < IndexOf(card)
    /\ Deal(card)

InitProb ==
    /\ pool = SubSeq(ProbDeck, 1, ProbPoolSize)
    /\ \E i, j \in 1..ProbPoolSize :
          /\ i # j
          /\ lists = << <<>>, <<ProbDeck[i], ProbDeck[j]>> >>
          /\ holes = <<HoleCards__init__(2, <<ProbDeck[i], ProbDeck[j]>>)>>
    /\ hands = <<Hand__init__(1, <<>>)>>
    /\ ret = Called("start", 0, 0, Return(None))

NextProb ==
    \/ \E c \in Undealt : Turn(c)
    \/ CallRoyalProbability(1, 1)
    \/ CallQuadsProb(1, 1)

SpecProb == InitProb /\ [][NextProb]_vars

-----------------------------------------------------------------------------
(* Counting board completions by classes of unseen cards *)

\* the cards some object holds: board and hole cards
Seen == UNION {SetOf(lists[l]) : l \in DOMAIN lists}

RECURSIVE Total(_)
\* ms[1] + ms[2] + ...
Total(ms) == IF ms = <<>> THEN 0 ELSE Head(ms) + Total(Tail(ms))

RECURSIVE Ways(_, _, _, _)
\* The unseen cards fall into disjoint groups of sizes ms[1], ms[2], ... and
\* `others` cards in no group. Ways(ms, others, slots, FALSE) is the number of
\* sets of `slots` unseen cards that hold every card of at least one group:
\* j cards are taken from the first group in comb(ms[1], j) ways and the rest
\* from the groups after it. Once a group was taken whole (`hit`) any `slots`
\* of the cards left do; while none was, and none of the groups left fits in
\* the slots left, there is no way.
Ways(ms, others, slots, hit) ==
    IF hit THEN comb(Total(ms) + others, slots)
    ELSE IF \A i \in DOMAIN ms : ms[i] > slots THEN 0
    ELSE LET m == Head(ms)
             top == IF m < slots THEN m ELSE slots
             S[j \in 0..top] ==
                 comb(m, j) * Ways(Tail(ms), others, slots - j, j = m)
                 + (IF j = 0 THEN 0 ELSE S[j - 1])
         IN  S[top]

\* the royal cards of a suit, and the cards of a rank, not yet seen
MissingRoyals(suit) == {Card(suit, royal_ranks[i]) : i \in DOMAIN royal_ranks} \ Seen
MissingOfRank(rank) == {Card(s, rank) : s \in Suits} \ Seen

\* board completions after which all of A,10,J,Q,K of some suit are among the 7 cards
RoyalCompletions ==
    LET ms == [s \in 1..4 |-> Cardinality(MissingRoyals(s))]
        slots == 5 - len(hands[1])
    IN  Ways(ms, 52 - Cardinality(Seen) - (ms[1] + ms[2] + ms[3] + ms[4]), slots, FALSE)

\* board completions after which some rank occurs 4 times among the 7 cards
QuadsCompletions ==
    LET ms == [r \in 1..13 |-> Cardinality(MissingOfRank(r))]
    IN  Ways(ms, 0, 5 - len(hands[1]), FALSE)

\* the same two numbers by listing the completions, when at most one card is to come
Completions ==
    IF len(hands[1]) = 5 THEN {{}} ELSE {{c} : c \in Deck \ Seen}

RoyalCompletionsListed ==
    Cardinality({comp \in Completions :
                    \E s \in Suits : MissingRoyals(s) \subseteq comp})

QuadsCompletionsListed ==
    Cardinality({comp \in Completions :
                    \E r \in Ranks : MissingOfRank(r) \subseteq comp})

-----------------------------------------------------------------------------
(* The cascade of categories, read off the set of cards of a hand *)

RanksIn(cards) == {c.rank : c \in cards}
SuitsIn(cards) == {c.suit : c \in cards}
Multiplicity(cards, rank) == Cardinality({c \in cards : c.rank = rank})

\* five distinct ranks that are five consecutive integers, Ace counted as 1
Consecutive(cards) ==
    /\ Cardinality(RanksIn(cards)) = 5
    /\ \E lo \in Ranks : RanksIn(cards) = lo..(lo + 4)

RoyalRanksOnly(cards) == RanksIn(cards) = {1, 10, 11, 12, 13}

Cascade(cards) ==
    IF Cardinality(SuitsIn(cards)) = 1
    THEN (IF RoyalRanksOnly(cards) THEN 1 ELSE IF Consecutive(cards) THEN 2 ELSE 5)
    ELSE IF Cardinality(RanksIn(cards)) = 2
    THEN (IF \E r \in Ranks : Multiplicity(cards, r) = 4 THEN 3 ELSE 4)
    ELSE IF Cardinality(RanksIn(cards)) = 3
    THEN (IF \E r \in Ranks : Multiplicity(cards, r) = 2 THEN 8 ELSE 7)
    ELSE IF Cardinality(RanksIn(cards)) = 4
    THEN 9
    ELSE IF Consecutive(cards) \/ RoyalRanksOnly(cards) THEN 6
    ELSE 10

\* the hand, the board and the hole cards of SpecRank, SpecStraight and SpecProb
TheHand == SetOf(lists[1])
TheBoard == lists[1]
TheHole == SetOf(lists[2])

Ranked == ret.op = "hand_rank"
PureOps == {"hand_rank", "royal_probability", "quads_prob"}

-----------------------------------------------------------------------------
(* Claims *)

\* C1: on every 5-card hand of distinct cards hand_rank returns one code in
\* 1..10, the one the ordered cascade gives for the set of its cards, whatever
\* the order of the cards in the hand.
C1_RankIsCascade ==
    (Ranked /\ len(hands[1]) = 5) =>
        /\ ret.err = None
        /\ ret.val \in 1..10
        /\ ret.val = Cascade(TheHand)

\* C1 witness: four of a kind was returned for a hand whose first card is the odd one
C1_Witness ==
    /\ Ranked /\ len(hands[1]) = 5
    /\ ret.err = None /\ ret.val = 3
    /\ count(hands[1].ranks, hands[1].ranks[1]) = 1

\* C2: a 5-card hand of mixed suits is ranked 6 exactly when its ranks are five
\* distinct ranks that are consecutive with Ace as 1 (A-2-3-4-5 included) or
\* are A,10,J,Q,K; every other mixed-suit hand of five distinct ranks is ranked 10.
C2_StraightIffRun ==
    (Ranked /\ len(hands[1]) = 5 /\ Cardinality(SuitsIn(TheHand)) > 1) =>
        /\ ret.err = None
        /\ (ret.val = 6) <=>
               /\ Cardinality(RanksIn(TheHand)) = 5
               /\ Consecutive(TheHand) \/ RoyalRanksOnly(TheHand)
        /\ (Cardinality(RanksIn(TheHand)) = 5
              /\ ~(Consecutive(TheHand) \/ RoyalRanksOnly(TheHand))) => ret.val = 10

\* C2 witness: the mixed-suit hand A,10,J,Q,K was ranked a straight
C2_Witness ==
    /\ Ranked /\ len(hands[1]) = 5
    /\ Cardinality(SuitsIn(TheHand)) > 1
    /\ RanksIn(TheHand) = {1, 10, 11, 12, 13}
    /\ ret.err = None /\ ret.val = 6

\* C3 (as claimed): hand_rank on a hand of other than 5 cards raises an error
\* and returns no category code.
C3_ShortHandRejected ==
    (Ranked /\ len(hands[ret.hand]) # 5) => ret.err # None

\* C4 (as claimed): no Hand ever holds more than 5 cards.
C4_AtMostFiveCards ==
    \A h \in DOMAIN hands : len(hands[h]) <= 5

\* C5 (as claimed): in every Hand and HoleCards object ranks and suits are as
\* long as cards and hold the rank and the suit of the card at each index.
C5_RanksSuitsMirrorCards ==
    /\ \A h \in DOMAIN hands :
          /\ hands[h].ranks = ranksOf(lists[hands[h].cards])
          /\ hands[h].suits = suitsOf(lists[hands[h].cards])
    /\ \A o \in DOMAIN holes :
          /\ holes[o].ranks = ranksOf(lists[holes[o].cards])
          /\ holes[o].suits = suitsOf(lists[holes[o].cards])

\* the call whose result is in ret was made on an empty board with the hole
\* cards 10 and Jack of Hearts
C6_Case ==
    /\ ret.op = "royal_probability"
    /\ TheBoard = <<>>
    /\ TheHole = {Card(1, 10), Card(1, 11)}

C7_QuadsCountsCompletions ==
    ret.op = "quads_prob" =>
        /\ ret.err = None
        /\ ret.val.num = QuadsCompletions
        /\ ret.val.num > 0 => ret.val.den = comb(50 - len(hands[1]), 5 - len(hands[1]))
        /\ len(hands[1]) >= 4 => ret.val.num = QuadsCompletionsListed
        /\ ( /\ len(hands[1]) = 4
             /\ Multiplicity(SetOf(TheBoard) \cup TheHole, 1) = 3
             /\ \A r \in 2..13 : Multiplicity(SetOf(TheBoard) \cup TheHole, r) <= 1 )
           => ret.val = [num |-> 1, den |-> 46]

\* C7 witness: the result for a board of three Aces and a fourth card, with
\* hole cards of two further ranks
C7_Witness ==
    /\ ret.op = "quads_prob" /\ ret.err = None
    /\ len(hands[1]) = 4
    /\ Multiplicity(SetOf(TheBoard), 1) = 3
    /\ \A r \in 2..13 : Multiplicity(SetOf(TheBoard) \cup TheHole, r) <= 1
    /\ ret.val.num = 1

\* C8: both estimators return, without an error, a probability between 0 and
\* 1: the summed numerators are at most the (positive) denominator.
C8_ProbabilityInUnitInterval ==
    ret.op \in {"royal_probability", "quads_prob"} =>
        /\ ret.err = None
        /\ ret.val.den > 0
        /\ 0 <= ret.val.num /\ ret.val.num <= ret.val.den

\* C8 witness: quads_prob returned 1 for a complete board on which four of a
\* kind is already there
C8_Witness ==
    /\ ret.op = "quads_prob" /\ ret.err = None
    /\ len(hands[1]) = 5
    /\ ret.val.num = ret.val.den

\* C9: a call of hand_rank, royal_probability or quads_prob leaves every list,
\* Hand and HoleCards object as it was.
C9_CallsChangeNothing ==
    [][ret'.op \in PureOps => UNCHANGED <<lists, hands, holes>>]_vars

\* C9 witness: hand_rank returned for a hand whose ranks are not in sorted order
C9_Witness ==
    /\ Ranked /\ ret.err = None
    /\ hands[ret.hand].ranks # sorted(hands[ret.hand].ranks)

=============================================================================
